---- MODULE Spec2Model ----
(***************************************************************************)
(* A model of the stc-voice-api backend: the deepfake detect-job lifecycle *)
(* (submission handler, Celery worker task with automatic retries, job     *)
(* polling), refresh-token rotation, HTTP / WebSocket authentication, the  *)
(* Remote Gateway and the streamed synthesis view, the voice tasks and     *)
(* their status views, and registration.                                   *)
(***************************************************************************)
EXTENDS Naturals, Integers, Sequences, FiniteSets, TLC

(***************************************************************************)
(* Bounds of the model and constants of the program.                       *)
(***************************************************************************)
\* number of job submissions that are accepted (rows of DeepfakeDetectJob)
MaxJobs == 1
\* number of broker re-deliveries of an already delivered task message
MaxRedeliver == 1
\* number of concurrently executing worker processes
NumWorkers == 2
\* max_retries of the shared_task decorators
MaxRetries == 3
\* refresh tokens minted in a behaviour, by login or by rotation
MaxTokens == 3
\* refresh requests handled at the same time
NumRequests == 2
\* voice design and voice clone tasks submitted in a behaviour
MaxVoiceTasks == 2
\* registration requests handled at the same time
NumRegistrations == 2

Users == {"u1", "u2"}
\* User rows: two active and verified users, an inactive one, and one whose
\* email is not verified
ActiveUsers == {"u1", "u2"}
InactiveUsers == {"u3"}
UserRows == ActiveUsers \cup InactiveUsers
UnverifiedUsers == {"u4"}
Accounts == UserRows \cup UnverifiedUsers
\* the accounts login requests are made for: one of each kind
LoginAccounts == {"u1", "u3", "u4"}
Jtis == 1 .. MaxTokens
NoUser == "nobody"
JobIds == 1 .. MaxJobs
\* uuids of DeepfakeUpload rows, and a uuid that names no row
UploadIds == {"x1", "x2"}
AnyUploadIds == UploadIds \cup {"x0"}
NoUpload == "x0"
\* a job uuid that names no row: a poll may carry any uuid
AnyJobIds == 0 .. MaxJobs

QUEUED == "queued"
RUNNING == "running"
SUCCEEDED == "succeeded"
FAILED == "failed"

VARIABLES
    uploads,      \* DeepfakeUpload rows: upload uuid -> owner, nobody: no row
    jobs,         \* DeepfakeDetectJob rows: job id -> row
    submitPc,     \* position of the submit handler that created the job
    queue,        \* task messages waiting in the broker: copies per message
    execs,        \* running executions of create_detect_job_task per message
    calls,        \* remote calls made per job
    redeliveries, \* broker re-deliveries per job
    remoteDown,   \* the provider is unreachable: every call raises
    issued,       \* refresh tokens minted so far (OutstandingToken rows)
    blacklist,    \* jti of the BlacklistedToken rows
    expired,      \* jti of the refresh tokens whose exp has passed
    inflight,     \* refresh requests between token validation and rotation
    tokResp,      \* last response of the login, refresh and logout views
    revoked,      \* jti of the valid refresh tokens a logout carried
    authIn,       \* last request or handshake given to an authenticator
    authOut,      \* what the authenticator made of it
    gwIn,         \* last call of the Remote Gateway: shape, API key, reply
    gwOut,        \* what the call did: request sent or not, raised or returned
    apiKey,       \* RESEMBLE_API_KEY in the environment of the running process
    gwPending,    \* voice design call between its JSON and multipart request
    vtasks,       \* voice tasks by handle: task, broker message, stored result
    vpoll,        \* last poll of a voice job status view: its reads, its response
    userEmails,   \* email column of the User rows
    regs,         \* registrations between validation and the INSERT
    regResp       \* last response of the registration view

jobVars == <<uploads, jobs, submitPc, queue, execs, calls, redeliveries,
             remoteDown>>

tokVars == <<issued, blacklist, expired, inflight, tokResp, revoked>>

authVars == <<authIn, authOut>>

gwVars == <<gwIn, gwOut, apiKey, gwPending>>

voiceVars == <<vtasks, vpoll>>

regVars == <<userEmails, regs, regResp>>

notJobVars == <<tokVars, authVars, gwVars, voiceVars, regVars>>
notTokVars == <<jobVars, authVars, gwVars, voiceVars, regVars>>
notAuthVars == <<jobVars, tokVars, gwVars, voiceVars, regVars>>
notGwVars == <<jobVars, tokVars, authVars, voiceVars, regVars>>
notVoiceVars == <<jobVars, tokVars, authVars, gwVars, regVars>>
notRegVars == <<jobVars, tokVars, authVars, gwVars, voiceVars>>

vars == <<jobVars, tokVars, authVars, gwVars, voiceVars, regVars>>

\* the variables of a part of the system no request has touched
\* a response: the view, the account (login) or the refresh cookie presented
\* (refresh, logout), the status code, whether the access cookie is set, the
\* jti set in the refresh cookie (0: not set), whether both cookies are deleted
TokResponse(op, user, presented, code, access, refresh, cleared) ==
    [op |-> op, user |-> user, presented |-> presented, code |-> code,
     access |-> access, refresh |-> refresh, cleared |-> cleared]
NoTokResponse == TokResponse("none", "", 0, 0, FALSE, 0, FALSE)
TokensAtRest ==
    /\ issued = {}
    /\ blacklist = {}
    /\ expired = {}
    /\ inflight = [t \in Jtis |-> 0]
    /\ tokResp = NoTokResponse
    /\ revoked = {}

NoRequest == [channel |-> "none"]
AuthAtRest ==
    /\ authIn = NoRequest
    /\ authOut = NoRequest

\* handles of voice tasks, and a handle no task was ever given (0)
Handles == 1 .. MaxVoiceTasks
AnyHandles == 0 .. MaxVoiceTasks
\* the result backend holds nothing for a handle
NoMeta == [status |-> "", result |-> ""]
NoVoiceTask == [task |-> "none", queued |-> FALSE, retries |-> 0, meta |-> NoMeta]
NoPoll == [view |-> "none", response |-> [status |-> "none"]]
\* no registration was made yet
RegSlots == 1 .. NumRegistrations
NoEmail == << >>
NoRegResponse == [code |-> 0]
RegAtRest ==
    /\ userEmails = {}
    /\ regs = [k \in RegSlots |-> NoEmail]
    /\ regResp = NoRegResponse

VoiceAtRest ==
    /\ vtasks = [h \in Handles |-> NoVoiceTask]
    /\ vpoll = NoPoll
    /\ RegAtRest

NoCall == [shape |-> "none"]
GatewayAtRest ==
    /\ gwIn = NoCall
    /\ gwOut = NoCall
    /\ apiKey = "set"
    /\ gwPending = NoCall
    /\ VoiceAtRest

(***************************************************************************)
(* The provider and the Remote Gateway (tts/resemble_client.py).           *)
(***************************************************************************)
\* JSON bodies the provider answers with; uuid "" stands for a body with no
\* item.uuid
BodyItem == [kind |-> "dict", uuid |-> "r1", error |-> FALSE]
BodyNoItem == [kind |-> "dict", uuid |-> "", error |-> FALSE]
BodyError == [kind |-> "dict", uuid |-> "", error |-> TRUE]

\* what requests.post does: a network error, or a response
ReplyNetworkError == [net |-> TRUE, status |-> 0, json |-> FALSE, body |-> BodyNoItem]
ReplyCreated == [net |-> FALSE, status |-> 200, json |-> TRUE, body |-> BodyItem]
ReplyNoItem == [net |-> FALSE, status |-> 200, json |-> TRUE, body |-> BodyNoItem]
ReplyRejected == [net |-> FALSE, status |-> 422, json |-> TRUE, body |-> BodyError]

\* an unreachable provider fails every call with a network error; a reachable
\* one answers, with an error status or with a created item
Replies(down) ==
    IF down THEN {ReplyNetworkError}
    ELSE {ReplyCreated, ReplyNoItem, ReplyRejected}
AllReplies == Replies(TRUE) \cup Replies(FALSE)

Raised(exc, msg) == [raised |-> TRUE, exc |-> exc, msg |-> msg, data |-> BodyNoItem]
Returned(data) == [raised |-> FALSE, exc |-> "", msg |-> "", data |-> data]

\* Response.raise_for_status raises HTTPError for a 4xx or 5xx status only
raise_for_status(status) == status >= 400 /\ status < 600

\* a parser that trusts every JSON body, whatever the status
parse_json_or_raise_TrustsBody(reply) ==
    IF ~reply.json
    THEN IF raise_for_status(reply.status)
         THEN Raised("HTTPError", "http error")
         ELSE Raised("JSONDecodeError", "not json")
    ELSE Returned(reply.body)

\* _parse_json_or_raise: r.json() failing re-raises (raise_for_status first), a
\* status of 400 or more raises HTTPError, otherwise the parsed body is returned
parse_json_or_raise(reply) ==
    IF ~reply.json
    THEN IF raise_for_status(reply.status)
         THEN Raised("HTTPError", "http error")
         ELSE Raised("JSONDecodeError", "not json")
    ELSE IF reply.status >= 400
         THEN Raised("HTTPError", "Resemble error")
         ELSE Returned(reply.body)

\* post_json: requests.post, then the same steps as _parse_json_or_raise,
\* written out in the function
post_json(reply) ==
    IF reply.net THEN Raised("ConnectionError", "connection failed")
    ELSE IF ~reply.json
         THEN IF raise_for_status(reply.status)
              THEN Raised("HTTPError", "http error")
              ELSE Raised("JSONDecodeError", "not json")
         ELSE IF reply.status >= 400
              THEN Raised("HTTPError", "Resemble error")
              ELSE Returned(reply.body)

\* get_json: requests.get, then the same steps
get_json(reply) ==
    IF reply.net THEN Raised("ConnectionError", "connection failed")
    ELSE IF ~reply.json
         THEN IF raise_for_status(reply.status)
              THEN Raised("HTTPError", "http error")
              ELSE Raised("JSONDecodeError", "not json")
         ELSE IF reply.status >= 400
              THEN Raised("HTTPError", "Resemble error")
              ELSE Returned(reply.body)

\* patch_json, delete_json, post_multipart: the request, then
\* _parse_json_or_raise(r)
patch_json(reply) ==
    IF reply.net THEN Raised("ConnectionError", "connection failed")
    ELSE parse_json_or_raise(reply)
delete_json(reply) ==
    IF reply.net THEN Raised("ConnectionError", "connection failed")
    ELSE parse_json_or_raise(reply)
post_multipart(reply) ==
    IF reply.net THEN Raised("ConnectionError", "connection failed")
    ELSE parse_json_or_raise(reply)

\* post_stream: below 400 the open response is returned for the caller to
\* iterate; from 400 on HTTPError is raised with the JSON error body, or by
\* raise_for_status, or the unbound name err fails when that raises nothing
StreamHandle == [kind |-> "stream", uuid |-> "", error |-> FALSE]
post_stream(reply) ==
    IF reply.net THEN Raised("ConnectionError", "connection failed")
    ELSE IF reply.status >= 400
         THEN IF reply.json THEN Raised("HTTPError", "Resemble error")
              ELSE IF raise_for_status(reply.status)
                   THEN Raised("HTTPError", "http error")
                   ELSE Raised("UnboundLocalError", "err")
         ELSE Returned(StreamHandle)

\* the call shapes of the gateway
JsonShapes == {"get_json", "post_json", "patch_json", "delete_json", "post_multipart"}
Shapes == JsonShapes \cup {"post_stream"}

\* RESEMBLE_API_KEY in the environment of the process
KeyStates == {"set", "empty", "unset"}

\* headers that accept an empty key: api_key is None in place of not api_key
HeadersRaise_OnlyUnset(key) == key = "unset"

\* _auth_headers and _bearer_headers: the key is read from the environment at
\* each call, and RuntimeError is raised before the request when it is unset
\* or empty
HeadersRaise(key) == key # "set"

\* one call of the gateway with the provider's reply at hand
gateway_call(shape, key, reply) ==
    IF HeadersRaise(key)
    THEN [sent |-> FALSE, result |-> Raised("RuntimeError", "RESEMBLE_API_KEY is not set")]
    ELSE [sent |-> TRUE,
          result |-> CASE shape = "get_json" -> get_json(reply)
                       [] shape = "post_json" -> post_json(reply)
                       [] shape = "patch_json" -> patch_json(reply)
                       [] shape = "delete_json" -> delete_json(reply)
                       [] shape = "post_multipart" -> post_multipart(reply)
                       [] shape = "post_stream" -> post_stream(reply)]

\* the replies a call may meet: a network error, or any status with a JSON
\* body or with a body that is not JSON
Statuses == {200, 201, 204, 399, 400, 404, 415, 422, 500, 599, 600}
GatewayReplies ==
    {ReplyNetworkError}
        \cup [net : {FALSE}, status : Statuses, json : {TRUE}, body : {BodyItem, BodyError}]
        \cup [net : {FALSE}, status : Statuses, json : {FALSE}, body : {BodyNoItem}]

\* the answers the multipart request of the voice design fallback may meet
FallbackReplies ==
    { ReplyNetworkError, ReplyCreated, ReplyRejected,
      [net |-> FALSE, status |-> 500, json |-> FALSE, body |-> BodyNoItem] }

resemble_detect_create(reply) == post_json(reply)

\* resemble_create_custom_voice: post_json on the voices endpoint
resemble_create_custom_voice(key, reply) == gateway_call("post_json", key, reply)

\* resemble_build_voice: post_json on the build endpoint of the voice
resemble_build_voice(key, reply) == gateway_call("post_json", key, reply)

\* a fallback taken after every HTTP error of the JSON request
FallbackStatus_AnyError(status) == status >= 400

\* the statuses of the JSON request after which the multipart request is made
FallbackStatus(status) == status \in {400, 404, 415, 422}

\* the JSON request of resemble_voice_design_generate (lines 163-164):
\* _auth_headers, requests.post, _parse_json_or_raise
VoiceDesignJsonRequest(key, reply) ==
    IF HeadersRaise(key)
    THEN [sent |-> FALSE, result |-> Raised("RuntimeError", "RESEMBLE_API_KEY is not set")]
    ELSE [sent |-> TRUE,
          result |-> IF reply.net THEN Raised("ConnectionError", "connection failed")
                     ELSE parse_json_or_raise(reply)]

\* _normalize_voice_design_generate_response: the stable shape; a body
\* without voice_candidates, as every body here, gives empty candidates
NoCandidates == [kind |-> "voice_candidates", uuid |-> "", error |-> FALSE]
normalize_voice_design_generate_response(r) ==
    IF r.raised THEN r ELSE Returned(NoCandidates)

\* lines 166-171: the JSON request raised an HTTPError whose response has a
\* fallback status, so the function goes on to the multipart call
FallbackTaken(key, reply) ==
    /\ VoiceDesignJsonRequest(key, reply).result.raised
    /\ VoiceDesignJsonRequest(key, reply).result.exc = "HTTPError"
    /\ FallbackStatus(reply.status)

\* the place of a reply to a request that was never made
NotSent == [net |-> FALSE, status |-> 0, json |-> FALSE, body |-> BodyNoItem]

\* resemble_voice_design_generate: the JSON request; its result when it
\* returned or raised anything but an HTTPError with a fallback status;
\* otherwise the post_multipart call and its result. key1 is the key the
\* JSON request reads from the environment, key2 the key post_multipart
\* reads from it. requests counts the requests sent to the
\* provider, fallback tells the post_multipart call was made
resemble_voice_design_generate(key1, key2, reply1, reply2) ==
    LET first == VoiceDesignJsonRequest(key1, reply1)
        second == gateway_call("post_multipart", key2, reply2)
    IN IF FallbackTaken(key1, reply1)
       THEN [requests |-> 1 + (IF second.sent THEN 1 ELSE 0), fallback |-> TRUE,
             result |-> normalize_voice_design_generate_response(second.result)]
       ELSE [requests |-> IF first.sent THEN 1 ELSE 0, fallback |-> FALSE,
             result |-> normalize_voice_design_generate_response(first.result)]

\* resemble_stream: post_stream on the synthesis endpoint
resemble_stream(key, reply) == gateway_call("post_stream", key, reply)

\* StreamSynthesizeView.post: an invalid payload is refused with 400 and the
\* field errors before the gateway is called; resemble_stream raising leaves
\* the view at line 69, before the StreamingHttpResponse is built: nothing in
\* the view catches it and no EXCEPTION_HANDLER is configured, so the
\* framework answers 500 with its own server-error body, whatever the
\* provider's status and body were; otherwise the open provider response is
\* forwarded as a streaming response (status 200)
ViewAnswer(sent, streaming, status, body) ==
    [sent |-> sent, streaming |-> streaming, status |-> status, body |-> body]
StreamSynthesizeView_post(valid, key, reply) ==
    IF ~valid THEN ViewAnswer(FALSE, FALSE, 400, "field_errors")
    ELSE LET r == resemble_stream(key, reply)
         IN IF r.result.raised THEN ViewAnswer(r.sent, FALSE, 500, "server_error")
            ELSE ViewAnswer(r.sent, TRUE, 200, "stream")

(***************************************************************************)
(* DeepfakeDetectJob rows (core/models.py).                                *)
(***************************************************************************)
\* celery_task_id "" (blank=True) is written NoTask
NoTask == 0
\* create_response default=dict
EmptyDict == BodyNoItem

NoRow == [exists |-> FALSE, user |-> NoUser, upload |-> NoUpload, status |-> "",
          celery_task_id |-> NoTask, remote_detect_uuid |-> "",
          create_response |-> EmptyDict, error_message |-> ""]

\* DeepfakeDetectJob.objects.create(user, upload, status=QUEUED, ...)
NewJobRow(u, x) ==
    [exists |-> TRUE, user |-> u, upload |-> x, status |-> QUEUED,
     celery_task_id |-> NoTask, remote_detect_uuid |-> "",
     create_response |-> EmptyDict, error_message |-> ""]

\* the id Celery gives the task of job j: one per delay(), kept by retries
TaskId(j) == j

\* the most remote calls a job can get: every delivery of its first message
\* (the first and each re-delivery) starts a run of 1 + max_retries executions
CallsCap == (MaxRedeliver + 1) * (MaxRetries + 1)
CountCall(n) == IF n >= CallsCap THEN n ELSE n + 1

Terminal(s) == s \in {SUCCEEDED, FAILED}

(***************************************************************************)
(* The submit handler and the job reads (deepfake/views.py).               *)
(***************************************************************************)
\* the uuid a new row gets (uuid4): one no row has yet
FreshJob == CHOOSE j \in JobIds : ~jobs[j].exists /\ \A k \in JobIds : ~jobs[k].exists => j <= k

\* the uuid a new DeepfakeUpload row gets (uuid4): one no row has yet
FreshUpload == CHOOSE x \in UploadIds : uploads[x] = NoUser

\* DeepfakeUploadView.post of user u: a file the serializer refuses is
\* answered 400 and nothing is written; otherwise upload.file.save(...,
\* save=True) INSERTs a row owned by request.user. Uploads are handled while
\* a uuid of UploadIds is unused
DeepfakeUploadView_post(u, valid) ==
    /\ \E x \in UploadIds : uploads[x] = NoUser
    /\ uploads' = IF valid THEN [uploads EXCEPT ![FreshUpload] = u] ELSE uploads
    /\ UNCHANGED <<jobs, submitPc, queue, execs, calls, redeliveries, remoteDown,
                   notJobVars>>

\* a lookup that forgets the user filter
UploadLookup_AnyOwner(u, x) == x \in UploadIds /\ uploads[x] # NoUser

\* DeepfakeUpload.objects.filter(uuid=upload_uuid, user=request.user).first()
UploadLookup(u, x) == x \in UploadIds /\ uploads[x] = u

\* the response of DeepfakeJobsView.post to user u naming upload x: 404 when
\* the upload is not found for this user, else 202 with status queued
JobsPost_response(u, x) ==
    IF ~UploadLookup(u, x)
    THEN [code |-> 404, detail |-> "Upload not found.", status |-> ""]
    ELSE [code |-> 202, detail |-> "", status |-> QUEUED]

\* a handler that goes on to the enqueue with the row not yet committed
JobsPost_writes_NoCommit(u, x) ==
    IF JobsPost_response(u, x).code = 404
    THEN [jobs |-> jobs, submitPc |-> submitPc]
    ELSE [jobs |-> jobs, submitPc |-> [submitPc EXCEPT ![FreshJob] = "created"]]

\* what DeepfakeJobsView.post has written when create() has committed: nothing
\* on the 404 path, else the new row with status queued
JobsPost_writes(u, x) ==
    IF JobsPost_response(u, x).code = 404
    THEN [jobs |-> jobs, submitPc |-> submitPc]
    ELSE [jobs |-> [jobs EXCEPT ![FreshJob] = NewJobRow(u, x)],
          submitPc |-> [submitPc EXCEPT ![FreshJob] = "created"]]

\* DeepfakeJobsView.post up to the committed create(); submissions are handled
\* while the table holds fewer than MaxJobs rows
JobsPost_create(u, x) ==
    /\ \E j \in JobIds : ~jobs[j].exists
    /\ jobs' = JobsPost_writes(u, x).jobs
    /\ submitPc' = JobsPost_writes(u, x).submitPc
    /\ UNCHANGED <<uploads, queue, execs, calls, redeliveries, remoteDown, notJobVars>>

\* create_detect_job_task.delay(str(job.uuid)): the first message, retries 0
JobsPost_delay(j) ==
    /\ submitPc[j] = "created"
    /\ queue' = [queue EXCEPT ![[job |-> j, retries |-> 0]] = @ + 1]
    /\ submitPc' = [submitPc EXCEPT ![j] = "enqueued"]
    /\ UNCHANGED <<uploads, jobs, execs, calls, redeliveries, remoteDown, notJobVars>>

\* a handler that saves its own copy of the row after the enqueue
JobsPost_update_SavesCopy(row, j) ==
    [row EXCEPT !.celery_task_id = TaskId(j), !.status = QUEUED,
                !.remote_detect_uuid = "", !.error_message = ""]

\* line 110: filter(uuid=job.uuid).update(celery_task_id=task.id), an UPDATE
\* of one column of the stored row
JobsPost_update(row, j) == [row EXCEPT !.celery_task_id = TaskId(j)]

\* filter(uuid=job.uuid).update(celery_task_id=task.id) and the 202 response,
\* which carries the status of the handler's own copy of the row (queued)
JobsPost_respond(j) ==
    /\ submitPc[j] = "enqueued"
    /\ jobs' = [jobs EXCEPT ![j] = JobsPost_update(@, j)]
    /\ submitPc' = [submitPc EXCEPT ![j] = "responded"]
    /\ UNCHANGED <<uploads, queue, execs, calls, redeliveries, remoteDown, notJobVars>>

\* a job read that forgets the user filter
JobDetailOn_AnyOwner(table, u, id) ==
    IF id \in JobIds /\ table[id].exists
    THEN [code |-> 200, detail |-> "", item |-> table[id]]
    ELSE [code |-> 404, detail |-> "Job not found.", item |-> NoRow]

\* DeepfakeJobDetailView.get: filter(uuid=uuid, user=request.user).first()
NotFound == [code |-> 404, detail |-> "Job not found.", item |-> NoRow]
JobDetailOn(table, u, id) ==
    IF id \in JobIds /\ table[id].exists /\ table[id].user = u
    THEN [code |-> 200, detail |-> "", item |-> table[id]]
    ELSE NotFound
DeepfakeJobDetailView_get(u, id) == JobDetailOn(jobs, u, id)

\* DeepfakeJobsView.get: filter(user=request.user)
JobsListOn(table, u) == {j \in JobIds : table[j].exists /\ table[j].user = u}
DeepfakeJobsView_get(u) == JobsListOn(jobs, u)

(***************************************************************************)
(* The worker: create_detect_job_task under Celery (deepfake/tasks.py).    *)
(***************************************************************************)
\* broker re-deliveries so far
RECURSIVE SumTo(_, _)
SumTo(f, n) == IF n = 0 THEN 0 ELSE f[n] + SumTo(f, n - 1)
RedeliveryCount == SumTo(redeliveries, MaxJobs)

\* task messages: the job uuid and request.retries
MaxAttempt == MaxRetries + 1
Messages == [job : JobIds, retries : 0 .. MaxAttempt]

\* executions under way, over all messages
RECURSIVE BusyOn(_, _)
BusyOn(j, r) == IF j = 0 THEN 0
                ELSE IF r = 0 THEN execs[[job |-> j, retries |-> 0]] + BusyOn(j - 1, MaxAttempt)
                ELSE execs[[job |-> j, retries |-> r]] + BusyOn(j, r - 1)
Busy == BusyOn(MaxJobs, MaxAttempt)

\* Task.retry under autoretry_for: request.retries + 1 > max_retries gives up
\* and re-raises, otherwise the task is sent again with retries + 1
CeleryRetries(retries) == retries + 1 <= MaxRetries

\* the broker after an execution of message m raised: Task.retry publishes
\* one more message with retries + 1, a copy of its own for every execution
\* that raised
AfterRaise(q, m) ==
    IF CeleryRetries(m.retries)
    THEN [q EXCEPT ![[job |-> m.job, retries |-> m.retries + 1]] = @ + 1]
    ELSE q

\* lines 21-24: status = RUNNING, celery_task_id = self.request.id, save
MarkRunning(row, j) == [row EXCEPT !.status = RUNNING, !.celery_task_id = TaskId(j)]

\* a worker takes message m and runs lines 19-24: objects.get (DoesNotExist is
\* an Exception, retried like any other), then the save of status running.
\* again: the broker keeps the message and will deliver it once more.
TaskStart(m, again) ==
    /\ queue[m] > 0
    /\ Busy < NumWorkers
    /\ again => RedeliveryCount < MaxRedeliver
    /\ redeliveries' = IF again THEN [redeliveries EXCEPT ![m.job] = @ + 1] ELSE redeliveries
    /\ LET rest == IF again THEN queue ELSE [queue EXCEPT ![m] = @ - 1]
       IN IF jobs[m.job].exists
          THEN /\ jobs' = [jobs EXCEPT ![m.job] = MarkRunning(@, m.job)]
               /\ execs' = [execs EXCEPT ![m] = @ + 1]
               /\ queue' = rest
          ELSE /\ jobs' = jobs
               /\ execs' = execs
               /\ queue' = AfterRaise(rest, m)
    /\ UNCHANGED <<uploads, submitPc, calls, remoteDown, notJobVars>>

\* a success branch that stores the response and leaves the status
SaveSucceeded_KeepsStatus(row, data) ==
    [row EXCEPT !.remote_detect_uuid = data.uuid, !.create_response = data,
                !.error_message = ""]

\* lines 28-37: resp = result or {}; remote_uuid = item.uuid or ""; save
SaveSucceeded(row, data) ==
    [row EXCEPT !.status = SUCCEEDED, !.remote_detect_uuid = data.uuid,
                !.create_response = data, !.error_message = ""]

\* an error branch that records the message and leaves the status
SaveFailed_KeepsStatus(row, msg) == [row EXCEPT !.error_message = msg]

\* lines 40-45: status = FAILED, error_message = str(e), save
SaveFailed(row, msg) == [row EXCEPT !.status = FAILED, !.error_message = msg]

\* lines 26-46: the remote call and the save of its outcome; a raised error is
\* saved as failed and re-raised, and Celery retries or gives up
TaskCall(m, reply) ==
    /\ execs[m] > 0
    /\ reply \in Replies(remoteDown)
    /\ LET j == m.job
           r == resemble_detect_create(reply)
       IN /\ calls' = [calls EXCEPT ![j] = CountCall(@)]
          /\ IF r.raised
             THEN /\ jobs' = [jobs EXCEPT ![j] = SaveFailed(@, r.msg)]
                  /\ queue' = AfterRaise(queue, m)
             ELSE /\ jobs' = [jobs EXCEPT ![j] = SaveSucceeded(@, r.data)]
                  /\ queue' = queue
    /\ execs' = [execs EXCEPT ![m] = @ - 1]
    /\ UNCHANGED <<uploads, submitPc, redeliveries, remoteDown, notJobVars>>

JobsInit ==
    /\ uploads = [x \in UploadIds |-> NoUser]
    /\ jobs = [j \in JobIds |-> NoRow]
    /\ submitPc = [j \in JobIds |-> "none"]
    /\ queue = [m \in Messages |-> 0]
    /\ execs = [m \in Messages |-> 0]
    /\ calls = [j \in JobIds |-> 0]
    /\ redeliveries = [j \in JobIds |-> 0]
    /\ remoteDown \in BOOLEAN
    /\ TokensAtRest
    /\ AuthAtRest
    /\ GatewayAtRest

JobsNext ==
    \/ \E u \in Users, valid \in BOOLEAN : DeepfakeUploadView_post(u, valid)
    \/ \E u \in Users, x \in AnyUploadIds : JobsPost_create(u, x)
    \/ \E j \in JobIds : JobsPost_delay(j)
    \/ \E j \in JobIds : JobsPost_respond(j)
    \/ \E m \in Messages, again \in BOOLEAN : TaskStart(m, again)
    \/ \E m \in Messages, reply \in AllReplies : TaskCall(m, reply)

SpecJobs == JobsInit /\ [][JobsNext]_vars

\* the worker pool keeps taking messages and every remote call ends
WorkerNext ==
    \/ \E m \in Messages, again \in BOOLEAN : TaskStart(m, again)
    \/ \E m \in Messages, reply \in AllReplies : TaskCall(m, reply)

FairSpecJobs == SpecJobs /\ WF_vars(WorkerNext)

(***************************************************************************)
(* Properties of the job lifecycle.                                        *)
(***************************************************************************)
Rank(s) == IF s = QUEUED THEN 0 ELSE IF s = RUNNING THEN 1 ELSE 2

\* job j has a task message waiting or an execution under way
Pending(j) ==
    \/ \E m \in Messages : m.job = j /\ queue[m] > 0
    \/ \E m \in Messages : m.job = j /\ execs[m] > 0

\* a retry of job j waits in the broker
RetryPending(j) ==
    \E m \in Messages : m.job = j /\ m.retries > 0 /\ queue[m] > 0

\* C1: the persisted status of a job only moves forward along
\* queued, running, succeeded|failed: no write takes it from succeeded or
\* failed to another value, and none lowers it.
C1_StatusOnlyForward ==
    [][\A j \in JobIds :
         jobs[j].exists =>
            /\ Rank(jobs'[j].status) >= Rank(jobs[j].status)
            /\ Terminal(jobs[j].status) => jobs'[j].status = jobs[j].status]_vars

\* C2: with a provider that raises on every attempt, one submission
\* (no broker re-delivery) makes at most 3 remote calls in total, the first
\* attempt counted.
C2_AtMostThreeCalls ==
    \A j \in JobIds : (remoteDown /\ redeliveries[j] = 0) => calls[j] <= 3

\* C3: when the remote call raises on every attempt, an enqueued job
\* eventually is failed with a non-empty error_message, and stays so.
C3_EventuallyFailedForGood ==
    \A j \in JobIds :
        [](remoteDown /\ submitPc[j] \in {"enqueued", "responded"}
             => <>[](jobs[j].status = FAILED /\ jobs[j].error_message # ""))

C3_Witness ==
    \E j \in JobIds :
        /\ remoteDown /\ ~Pending(j) /\ calls[j] >= MaxRetries + 1
        /\ jobs[j].status = FAILED /\ jobs[j].error_message # ""

\* C4: while a retry of a job is still pending, the row read by
\* GET jobs/<uuid>/ has neither status failed nor an error_message.
C4_FailureHiddenWhileRetryPending ==
    \A j \in JobIds :
        RetryPending(j) =>
            LET r == DeepfakeJobDetailView_get(jobs[j].user, j)
            IN r.item.status # FAILED /\ r.item.error_message = ""

(***************************************************************************)
(* Properties of ownership.                                                *)
(***************************************************************************)
\* the job table without the rows of users other than u
OwnRows(u) == [j \in JobIds |-> IF jobs[j].exists /\ jobs[j].user = u THEN jobs[j] ELSE NoRow]

\* C7: a job read by a user who does not own the job answers 404, the
\* same response as for a uuid that names no job; no read of a user depends
\* on the rows of other users; a user's job list holds no job of another.
C7_OwnershipIsolation ==
    \A u \in Users :
        /\ \A j \in JobIds :
              (jobs[j].exists /\ jobs[j].user # u) =>
                 /\ DeepfakeJobDetailView_get(u, j).code = 404
                 /\ DeepfakeJobDetailView_get(u, j) = DeepfakeJobDetailView_get(u, 0)
                 /\ j \notin DeepfakeJobsView_get(u)
        /\ \A id \in AnyJobIds :
              DeepfakeJobDetailView_get(u, id) = JobDetailOn(OwnRows(u), u, id)
        /\ DeepfakeJobsView_get(u) = JobsListOn(OwnRows(u), u)

C7_Witness ==
    \E j \in JobIds :
        /\ jobs[j].exists /\ jobs[j].user = "u1" /\ jobs[j].status = SUCCEEDED
        /\ DeepfakeJobDetailView_get("u1", j).code = 200
        /\ DeepfakeJobDetailView_get("u2", j).code = 404

\* C8: a submission naming an upload that does not exist or belongs to
\* another user answers 404 and writes no row and no task message; every job
\* row was created with an upload owned by the row's user, and every task
\* message names an existing row.
C8_SubmitNeedsOwnUpload ==
    /\ \A u \in Users, x \in AnyUploadIds :
          ~(x \in UploadIds /\ uploads[x] = u) =>
             /\ JobsPost_response(u, x).code = 404
             /\ JobsPost_writes(u, x).jobs = jobs
             /\ JobsPost_writes(u, x).submitPc = submitPc
    /\ \A j \in JobIds :
          jobs[j].exists =>
             /\ jobs[j].upload \in UploadIds
             /\ uploads[jobs[j].upload] = jobs[j].user
             /\ JobsPost_response(jobs[j].user, jobs[j].upload).code = 202
    /\ \A j \in JobIds : (Pending(j) \/ submitPc[j] # "none") => jobs[j].exists

C8_Witness ==
    \E j \in JobIds :
        /\ jobs[j].exists /\ jobs[j].user = "u2" /\ jobs[j].upload = "x2"
        /\ uploads["x1"] = "u1" /\ uploads["x2"] = "u2"
        /\ JobsPost_response("u2", "x1").code = 404
        /\ JobsPost_response("u2", NoUpload).code = 404

(***************************************************************************)
(* Properties of the hand-off to the worker and of the job row.            *)
(***************************************************************************)
\* executions of create_detect_job_task under way for job j
ExecsOf(j) == BusyOn(j, MaxAttempt) - BusyOn(j - 1, MaxAttempt)

\* C14: the row is committed with status queued before the task is
\* enqueued: no message and no execution names a job without a row, no worker
\* has touched a row whose task is not enqueued yet, and the 202 response
\* (status queued) is sent with the row present and the task enqueued.
C14_RowCommittedBeforeEnqueue ==
    \A j \in JobIds :
        /\ submitPc[j] # "none" => jobs[j].exists
        /\ Pending(j) => (jobs[j].exists /\ submitPc[j] \in {"enqueued", "responded"})
        /\ submitPc[j] = "created" =>
              (jobs[j].status = QUEUED /\ calls[j] = 0 /\ jobs[j].celery_task_id = NoTask)
        /\ submitPc[j] = "responded" =>
              /\ jobs[j].exists
              /\ Pending(j) \/ jobs[j].status # QUEUED
              /\ JobsPost_response(jobs[j].user, jobs[j].upload).code = 202
              /\ JobsPost_response(jobs[j].user, jobs[j].upload).status = QUEUED

C14_Witness ==
    \E j \in JobIds :
        /\ submitPc[j] = "enqueued" /\ jobs[j].status = RUNNING /\ ExecsOf(j) = 1
        /\ jobs[j].celery_task_id = TaskId(j)

\* C15: remote_detect_uuid is set only on a succeeded row.
C15_RemoteIdOnlyOnSuccess ==
    \A j \in JobIds :
        (jobs[j].exists /\ jobs[j].remote_detect_uuid # "") => jobs[j].status = SUCCEEDED

\* C16: error_message is set only on a failed row.
C16_ErrorOnlyOnFailure ==
    \A j \in JobIds :
        (jobs[j].exists /\ jobs[j].error_message # "") => jobs[j].status = FAILED

\* C17: a succeeded row has its remote_detect_uuid populated.
C17_SucceededHasRemoteId ==
    \A j \in JobIds :
        (jobs[j].exists /\ jobs[j].status = SUCCEEDED) => jobs[j].remote_detect_uuid # ""

\* C18: no step changes the status, remote_detect_uuid, create_response
\* or error_message of a succeeded row, and none makes a remote call for it.
C18_SucceededRowUntouched ==
    [][\A j \in JobIds :
         (jobs[j].exists /\ jobs[j].status = SUCCEEDED) =>
            /\ jobs'[j].status = SUCCEEDED
            /\ jobs'[j].remote_detect_uuid = jobs[j].remote_detect_uuid
            /\ jobs'[j].create_response = jobs[j].create_response
            /\ jobs'[j].error_message = jobs[j].error_message
            /\ calls'[j] = calls[j]]_vars

\* C19: while two executions of the task of one job are under way and
\* after one of them has written succeeded or failed, the write of the other
\* does not change the status.
C19_ConcurrentWritesSerialized ==
    [][\A j \in JobIds :
         (ExecsOf(j) >= 1 /\ Terminal(jobs[j].status) /\ ExecsOf(j)' < ExecsOf(j)) =>
            jobs'[j].status = jobs[j].status]_vars

(***************************************************************************)
(* Refresh-token rotation (user/views.py, user/serializers.py, SIMPLE_JWT  *)
(* with ROTATE_REFRESH_TOKENS and BLACKLIST_AFTER_ROTATION).               *)
(***************************************************************************)
\* the refresh cookie of a request: absent, not a token, or a minted token
NoCookie == 0
Garbage == -1
CookieValues == {NoCookie, Garbage} \cup Jtis

Minted == {t.jti : t \in issued}
TokenOf(jti) == CHOOSE t \in issued : t.jti = jti
\* set_jti(): a jti no token has
FreshJti == Cardinality(issued) + 1

\* requests past validation, over all tokens
RECURSIVE InFlightTo(_)
InFlightTo(n) == IF n = 0 THEN 0 ELSE inflight[n] + InFlightTo(n - 1)
InFlight == InFlightTo(MaxTokens)

JobsAtRest ==
    /\ uploads = [x \in UploadIds |-> NoUser]
    /\ jobs = [j \in JobIds |-> NoRow]
    /\ submitPc = [j \in JobIds |-> "none"]
    /\ queue = [m \in Messages |-> 0]
    /\ execs = [m \in Messages |-> 0]
    /\ calls = [j \in JobIds |-> 0]
    /\ redeliveries = [j \in JobIds |-> 0]
    /\ remoteDown = FALSE

\* User.is_active and User.verified of an account
IsActive(u) == u \notin InactiveUsers
Verified(u) == u \notin UnverifiedUsers

\* TokenObtainPairSerializer.validate: authenticate() gives no user for a wrong
\* password or an inactive account, and the serializer raises (401)
Authenticates(u, passwordOk) == passwordOk /\ IsActive(u)

\* a check that forgets the verified flag
MayLogin_ActiveOnly(u) == IsActive(u)

\* CookieTokenObtainPairSerializer.validate after super().validate
MayLogin(u) == Verified(u) /\ IsActive(u)

\* the response of CreateTokenView.post: an exception of the serializer
\* leaves post before any cookie is set; jti is the new refresh token
CreateTokenView_response(u, passwordOk, jti) ==
    IF ~Authenticates(u, passwordOk)
    THEN TokResponse("login", u, 0, 401, FALSE, 0, FALSE)
    ELSE IF ~MayLogin(u)
    THEN TokResponse("login", u, 0, 401, FALSE, 0, FALSE)
    ELSE TokResponse("login", u, 0, 200, TRUE, jti, FALSE)

\* CreateTokenView.post: super().validate of the serializer (line 59) calls
\* RefreshToken.for_user for every account that authenticates, which mints a
\* refresh token and stores its OutstandingToken row, before the check of
\* lines 62-64. For a verified account the token starts a rotation chain and
\* is sent in the refresh cookie; for an unverified one it is minted, valid,
\* and sent to nobody.
Login(u, passwordOk) ==
    LET r == CreateTokenView_response(u, passwordOk, FreshJti)
    IN /\ Authenticates(u, passwordOk) => FreshJti \in Jtis
       /\ issued' = IF Authenticates(u, passwordOk)
                     THEN issued \cup {[jti |-> FreshJti, chain |-> FreshJti,
                                         parent |-> 0, user |-> u]}
                     ELSE issued
       /\ tokResp' = r
       /\ UNCHANGED <<blacklist, expired, inflight, revoked, notTokVars>>

\* time passes the exp claim of a token; the expiry of a blacklisted token
\* changes nothing a request can see and is left out
TokenExpires(jti) ==
    /\ jti \in Minted \ (expired \cup blacklist)
    /\ expired' = expired \cup {jti}
    /\ UNCHANGED <<issued, blacklist, inflight, tokResp, revoked, notTokVars>>

\* RefreshToken(raw): the token parses with the right type, exp has not
\* passed, and check_blacklist finds no BlacklistedToken row for its jti
VerifiesOn(bl, c) == c \in Minted /\ c \notin expired /\ c \notin bl
RefreshTokenVerifies(c) == VerifiesOn(blacklist, c)

\* what the serializer of RefreshView answers before the rotation. The field
\* refresh of TokenRefreshSerializer is inherited and required: a request
\* whose body has no (non-blank) refresh value is refused with 400 by the
\* field validation, before validate (lines 76-82) runs. With the field,
\* validate ignores its value and reads the cookie: 400 with no refresh
\* cookie, 401 (InvalidToken) when the token does not verify, code 0 when the
\* request goes on
RefreshView_rejection(body, c) ==
    IF ~body THEN TokResponse("refresh", "", c, 400, FALSE, 0, FALSE)
    ELSE IF c = NoCookie THEN TokResponse("refresh", "", c, 400, FALSE, 0, FALSE)
    ELSE IF ~RefreshTokenVerifies(c) THEN TokResponse("refresh", "", c, 401, FALSE, 0, FALSE)
    ELSE TokResponse("refresh", "", c, 0, FALSE, 0, FALSE)

\* RefreshView.post up to the verified token, for a request with refresh
\* cookie c whose body has the field refresh or not; the exception leaves
\* post before any cookie is set
RefreshBegin(body, c) ==
    /\ InFlight < NumRequests
    /\ IF RefreshView_rejection(body, c).code # 0
       THEN /\ tokResp' = RefreshView_rejection(body, c)
            /\ inflight' = inflight
       ELSE /\ tokResp' = tokResp
            /\ inflight' = [inflight EXCEPT ![c] = @ + 1]
    /\ UNCHANGED <<issued, blacklist, expired, revoked, notTokVars>>

\* refresh.blacklist(): get_or_create of the BlacklistedToken row, no error
\* when the row is already there
Blacklisted(bl, jti) == bl \cup {jti}

\* the rest of TokenRefreshSerializer.validate and RefreshView.post: the old
\* jti is blacklisted, the token gets a new jti, both cookies are set
RefreshRotate(jti) ==
    /\ inflight[jti] > 0
    /\ FreshJti \in Jtis
    /\ blacklist' = Blacklisted(blacklist, jti)
    /\ issued' = issued \cup {[jti |-> FreshJti, chain |-> TokenOf(jti).chain,
                                parent |-> jti, user |-> TokenOf(jti).user]}
    /\ inflight' = [inflight EXCEPT ![jti] = @ - 1]
    /\ tokResp' = TokResponse("refresh", "", jti, 200, TRUE, FreshJti, FALSE)
    /\ UNCHANGED <<expired, revoked, notTokVars>>

\* a logout whose blacklisting is not wrapped in try/except
LogoutView_response_NoExcept(c) ==
    IF c = NoCookie \/ RefreshTokenVerifies(c)
    THEN TokResponse("logout", "", c, 200, FALSE, 0, TRUE)
    ELSE TokResponse("logout", "", c, 401, FALSE, 0, FALSE)

\* LogoutView.post answers 200 and deletes both cookies, whatever the refresh
\* cookie holds: the blacklisting is inside try/except Exception: pass
LogoutView_response(c) == TokResponse("logout", "", c, 200, FALSE, 0, TRUE)

\* a logout that only deletes the cookies
LogoutView_blacklist_Noop(bl, c) == bl

\* lines 125-133: with a refresh cookie, RefreshToken(token_str).blacklist();
\* a token that does not verify raises TokenError, which is swallowed
LogoutView_blacklist(bl, c) ==
    IF c # NoCookie /\ VerifiesOn(bl, c) THEN Blacklisted(bl, c) ELSE bl

\* LogoutView.post of an authenticated request with refresh cookie c
Logout(c) ==
    /\ blacklist' = LogoutView_blacklist(blacklist, c)
    /\ revoked' = IF RefreshTokenVerifies(c) THEN revoked \cup {c} ELSE revoked
    /\ tokResp' = LogoutView_response(c)
    /\ UNCHANGED <<issued, expired, inflight, notTokVars>>

TokensInit ==
    /\ TokensAtRest
    /\ JobsAtRest
    /\ AuthAtRest
    /\ GatewayAtRest

TokensNext ==
    \/ \E u \in LoginAccounts, passwordOk \in BOOLEAN : Login(u, passwordOk)
    \/ \E jti \in Jtis : TokenExpires(jti)
    \/ \E body \in BOOLEAN, c \in CookieValues : RefreshBegin(body, c)
    \/ \E jti \in Jtis : RefreshRotate(jti)
    \/ \E c \in CookieValues : Logout(c)

SpecTokens == TokensInit /\ [][TokensNext]_vars

\* the new tokens minted by refresh requests that presented token jti
Successes(jti) == {t \in issued : t.parent = jti}
\* the refresh tokens of a chain a refresh request would accept
Usable(chain) == {t \in issued : t.chain = chain /\ RefreshTokenVerifies(t.jti)}

\* C5: refresh requests that present the same refresh token never
\* succeed twice: at most one new pair is minted from a token.
C5_RotationSingleUse ==
    \A jti \in Jtis : Cardinality(Successes(jti)) <= 1

\* C6: a token a refresh request succeeded with is blacklisted, a
\* blacklisted token is never accepted, and a rotation chain never has more
\* than one usable refresh token.
C6_OneLiveTokenPerChain ==
    /\ \A jti \in Jtis : Successes(jti) # {} => jti \in blacklist
    /\ \A jti \in Jtis : jti \in blacklist => ~RefreshTokenVerifies(jti)
    /\ \A chain \in Jtis : Cardinality(Usable(chain)) <= 1

\* C11: a login with the right password for an account that is not
\* verified or not active answers 401 and sets neither cookie; a login sets
\* the cookies only for a verified and active account.
C11_LoginNeedsVerifiedActive ==
    /\ \A u \in Accounts :
          LET r == CreateTokenView_response(u, TRUE, FreshJti)
          IN ~(Verified(u) /\ IsActive(u)) => (r.code = 401 /\ ~r.access /\ r.refresh = 0)
    /\ \A u \in Accounts, passwordOk \in BOOLEAN :
          LET r == CreateTokenView_response(u, passwordOk, FreshJti)
          IN (r.access \/ r.refresh # 0) => (Verified(u) /\ IsActive(u))
    /\ tokResp.op = "login" =>
          /\ tokResp = CreateTokenView_response(tokResp.user, tokResp.code = 200, tokResp.refresh)
          /\ (tokResp.access \/ tokResp.refresh # 0) =>
                /\ Verified(tokResp.user) /\ IsActive(tokResp.user)
                /\ TokenOf(tokResp.refresh).user = tokResp.user

C11_Witness ==
    /\ tokResp.op = "login" /\ tokResp.user = "u4"
    /\ tokResp.code = 401 /\ ~tokResp.access /\ tokResp.refresh = 0
    /\ \E t \in issued : t.user = "u4"
    /\ \E t \in issued : t.user = "u1"

\* C12: a logout answers 200 and deletes both cookies for every state
\* of the refresh cookie; with a token that does not verify it writes
\* nothing; a second logout with the same cookie changes nothing more and
\* answers the same.
C12_LogoutIdempotent ==
    /\ \A c \in CookieValues :
          /\ LogoutView_response(c).code = 200
          /\ LogoutView_response(c).cleared
          /\ ~RefreshTokenVerifies(c) => LogoutView_blacklist(blacklist, c) = blacklist
          /\ LogoutView_blacklist(LogoutView_blacklist(blacklist, c), c)
                = LogoutView_blacklist(blacklist, c)
    /\ tokResp.op = "logout" =>
          /\ tokResp.code = 200 /\ tokResp.cleared
          /\ ~tokResp.access /\ tokResp.refresh = 0
          /\ LogoutView_blacklist(blacklist, tokResp.presented) = blacklist

C12_Witness ==
    /\ tokResp.op = "logout" /\ tokResp.code = 200 /\ tokResp.cleared
    /\ tokResp.presented \in expired
    /\ tokResp.presented \notin blacklist

\* C13: a valid refresh token carried by a logout is blacklisted from
\* then on, and a refresh request that presents it is rejected: with 401 when
\* the request gets as far as the token, with 400 when its body lacks the
\* refresh field.
C13_LogoutRevokes ==
    /\ revoked \subseteq blacklist
    /\ \A t \in revoked :
          /\ ~RefreshTokenVerifies(t)
          /\ RefreshView_rejection(TRUE, t).code = 401
          /\ \A body \in BOOLEAN :
                /\ RefreshView_rejection(body, t).code \in {400, 401}
                /\ ~RefreshView_rejection(body, t).access
                /\ RefreshView_rejection(body, t).refresh = 0

C13_Witness ==
    /\ tokResp.op = "refresh" /\ tokResp.code = 401
    /\ tokResp.presented \in revoked
    /\ Successes(tokResp.presented) = {}

\* C30: with a worker pool that keeps taking deliveries and remote
\* calls that all return or raise, every job whose task was enqueued reaches
\* succeeded or failed, and never stays queued or running from some point on.
C30_EnqueuedJobTerminates ==
    \A j \in JobIds :
        [](submitPc[j] \in {"enqueued", "responded"}
             => []<>Terminal(jobs[j].status))

C30_Witness ==
    \E j \in JobIds :
        /\ ~remoteDown /\ ~Pending(j) /\ calls[j] >= 2
        /\ submitPc[j] = "responded"
        /\ jobs[j].status = SUCCEEDED

\* C29: the write of the submit handler after the enqueue changes only
\* celery_task_id: whatever the worker has written to the row by then (the
\* handler may run before, between or after the worker's saves), status,
\* remote_detect_uuid, create_response and error_message stay as they are;
\* and when the handler and the worker have finished, celery_task_id is the
\* id of the enqueued task.
C29_SubmitWritesOnlyTaskId ==
    \A j \in JobIds :
        /\ submitPc[j] = "enqueued" =>
              LET w == JobsPost_update(jobs[j], j)
              IN /\ w.status = jobs[j].status
                 /\ w.remote_detect_uuid = jobs[j].remote_detect_uuid
                 /\ w.create_response = jobs[j].create_response
                 /\ w.error_message = jobs[j].error_message
                 /\ w.celery_task_id = TaskId(j)
        /\ (submitPc[j] = "responded" /\ ~Pending(j)) =>
              jobs[j].celery_task_id = TaskId(j)
        /\ (submitPc[j] = "responded" /\ calls[j] > 0) => jobs[j].status # QUEUED

C29_Witness ==
    \E j \in JobIds :
        /\ submitPc[j] = "responded" /\ ~Pending(j)
        /\ jobs[j].status = SUCCEEDED /\ jobs[j].remote_detect_uuid # ""
        /\ jobs[j].celery_task_id = TaskId(j)

(***************************************************************************)
(* Authentication of HTTP requests (core/auth/cookie_jwt.py) and of        *)
(* WebSocket handshakes (app/ws_jwt_auth.py).                              *)
(***************************************************************************)
\* a raw token: how AccessToken(raw) ends, and its user_id claim ("" when the
\* claim is missing, "u9" a user_id with no row)
Verifications == {"ok", "bad_signature", "expired", "wrong_type"}
\* the user_id claim of a token: the pk of a row, a pk of no row ("u9"), a
\* value int() refuses ("abc"), or no claim ("")
NotAnInteger == "abc"
RawTokens ==
    [verify : {"ok"}, uid : {"u1", "u2", "u3", "u9", NotAnInteger, ""}]
        \cup [verify : Verifications \ {"ok"}, uid : {"u1"}]

\* the access cookie of a request: no cookie, an empty value, or a token
NoValue == [verify |-> "absent", uid |-> ""]
EmptyValue == [verify |-> "empty", uid |-> ""]
CookieInputs == {NoValue, EmptyValue} \cup RawTokens
\* the Authorization header: none, one that is not "Bearer ...", or a token
NotBearer == [verify |-> "not_bearer", uid |-> ""]
HeaderInputs == {NoValue, NotBearer} \cup RawTokens

\* Python truth of a cookie value or of an extracted token
Truthy(v) == v \in RawTokens

Methods == {"GET", "HEAD", "OPTIONS", "TRACE", "POST", "PUT", "PATCH", "DELETE", "CONNECT"}
StateChanging == {"POST", "PUT", "PATCH", "DELETE"}

\* _enforce_csrf: returns at once for every method of its tuple; otherwise
\* CsrfViewMiddleware.process_view decides, and a reason is PermissionDenied
CsrfExemptMethods == {"GET", "HEAD", "OPTIONS", "TRACE", "POST", "PUT", "PATCH", "DELETE"}
enforce_csrf(method, csrfOk) ==
    IF method \in CsrfExemptMethods THEN "pass"
    ELSE IF csrfOk THEN "pass" ELSE "PermissionDenied"

\* get_validated_token and get_user of JWTAuthentication
ValidateAndGetUser(tok, source) ==
    IF tok.verify # "ok"
    THEN [channel |-> "http", result |-> "InvalidToken", user |-> "", source |-> source]
    ELSE IF tok.uid = ""
    THEN [channel |-> "http", result |-> "InvalidToken", user |-> "", source |-> source]
    ELSE IF tok.uid = NotAnInteger
    THEN [channel |-> "http", result |-> "ValueError", user |-> "", source |-> source]
    ELSE IF tok.uid \notin UserRows
    THEN [channel |-> "http", result |-> "AuthenticationFailed", user |-> "", source |-> source]
    ELSE IF tok.uid \notin ActiveUsers
    THEN [channel |-> "http", result |-> "AuthenticationFailed", user |-> "", source |-> source]
    ELSE [channel |-> "http", result |-> "user", user |-> tok.uid, source |-> source]

\* CookieJWTAuthentication.authenticate: the cookie token first, with the CSRF
\* check before the token is validated; else JWTAuthentication.authenticate
\* on the Authorization header (None when there is no bearer header)
authenticate(method, cookie, header, csrfOk) ==
    IF Truthy(cookie)
    THEN IF enforce_csrf(method, csrfOk) = "PermissionDenied"
         THEN [channel |-> "http", result |-> "PermissionDenied", user |-> "", source |-> "cookie"]
         ELSE ValidateAndGetUser(cookie, "cookie")
    ELSE IF ~Truthy(header)
         THEN [channel |-> "http", result |-> "anonymous", user |-> "", source |-> "none"]
         ELSE ValidateAndGetUser(header, "authorization")

HttpAuthenticate(method, cookie, header, csrfOk) ==
    /\ authIn' = [channel |-> "http", method |-> method, cookie |-> cookie,
                  header |-> header, csrfOk |-> csrfOk]
    /\ authOut' = authenticate(method, cookie, header, csrfOk)
    /\ UNCHANGED notAuthVars

\* an extraction that reads the header whatever WS_ALLOW_AUTH_HEADER says
WsExtract_IgnoresSetting(cookie, header, allow) ==
    IF cookie \in RawTokens
    THEN [token |-> cookie, source |-> "cookie", headerRead |-> FALSE]
    ELSE IF header \in RawTokens
         THEN [token |-> header, source |-> "authorization", headerRead |-> TRUE]
         ELSE [token |-> NoValue, source |-> "none", headerRead |-> TRUE]

\* lines 78-83 of CookieJWTAuthMiddleware.__call__: the cookie value, and the
\* bearer header only when the cookie gave nothing and the header is allowed
WsExtract(cookie, header, allow) ==
    IF Truthy(cookie)
    THEN [token |-> cookie, source |-> "cookie", headerRead |-> FALSE]
    ELSE IF allow
         THEN IF Truthy(header)
              THEN [token |-> header, source |-> "authorization", headerRead |-> TRUE]
              ELSE [token |-> NoValue, source |-> "none", headerRead |-> TRUE]
         ELSE [token |-> NoValue, source |-> "none", headerRead |-> FALSE]

\* the scope the inner application was last called with, the reason it was
\* first called with, and the number of times it was called
WsScope(user, error, source, jwt, read, first, n) ==
    [channel |-> "ws", user |-> user, jwt_error |-> error, jwt_source |-> source,
     jwt |-> jwt, headerRead |-> read, firstError |-> first, innerCalls |-> n]

\* early returns that attach no jwt_source
WsCallInsideTry_NoSource(error, source, read, innerRaises) ==
    WsScope("", error, "none", FALSE, read, error, 1)

\* the two returns inside the try block (lines 98 and 105): an exception of
\* the inner application is caught by except Exception, the scope is marked
\* unexpected and line 127 calls the inner application again
WsCallInsideTry(error, source, read, innerRaises) ==
    IF innerRaises
    THEN WsScope("", "unexpected", source, FALSE, read, error, 2)
    ELSE WsScope("", error, source, FALSE, read, error, 1)

\* CookieJWTAuthMiddleware.__call__: what is attached to the scope when the
\* inner application is called; user "" is AnonymousUser, error "" is None
ws_call(cookie, header, allow, innerRaises) ==
    LET x == WsExtract(cookie, header, allow)
        tok == x.token
    IN IF ~Truthy(tok)
       THEN WsScope("", "missing_token", "none", FALSE, x.headerRead, "missing_token", 1)
       ELSE IF tok.verify # "ok"
       THEN WsScope("", "invalid_or_expired", x.source, FALSE, x.headerRead,
                    "invalid_or_expired", 1)
       ELSE IF tok.uid = ""
       THEN WsCallInsideTry("missing_user_id", x.source, x.headerRead, innerRaises)
       ELSE IF tok.uid = NotAnInteger
       THEN WsScope("", "unexpected", x.source, FALSE, x.headerRead, "unexpected", 1)
       ELSE IF tok.uid \notin UserRows
       THEN WsCallInsideTry("user_not_found", x.source, x.headerRead, innerRaises)
       ELSE WsScope(tok.uid, "", x.source, TRUE, x.headerRead, "", 1)

\* a handshake; the inner application (the URL router and the consumer behind
\* it) returns or raises
WsHandshake(cookie, header, allow, innerRaises) ==
    /\ authIn' = [channel |-> "ws", cookie |-> cookie, header |-> header,
                  allow |-> allow, innerRaises |-> innerRaises]
    /\ authOut' = ws_call(cookie, header, allow, innerRaises)
    /\ UNCHANGED notAuthVars

AuthInit ==
    /\ AuthAtRest
    /\ JobsAtRest
    /\ TokensAtRest
    /\ GatewayAtRest

AuthNext ==
    \/ \E method \in Methods, cookie \in CookieInputs, header \in HeaderInputs, csrfOk \in BOOLEAN :
          HttpAuthenticate(method, cookie, header, csrfOk)
    \/ \E cookie \in CookieInputs, header \in HeaderInputs, allow \in BOOLEAN,
             innerRaises \in BOOLEAN :
          WsHandshake(cookie, header, allow, innerRaises)

SpecAuth == AuthInit /\ [][AuthNext]_vars

\* C9: a state-changing request whose token came from the cookie and
\* that carries no matching CSRF token is refused with PermissionDenied; the
\* same request with only a bearer header is authenticated without one.
C9_CsrfOnCookieOnly ==
    authIn.channel = "http" =>
        /\ (authIn.method \in StateChanging /\ Truthy(authIn.cookie) /\ ~authIn.csrfOk)
              => authOut.result = "PermissionDenied"
        /\ (authIn.method \in StateChanging /\ ~Truthy(authIn.cookie) /\ ~authIn.csrfOk
               /\ Truthy(authIn.header) /\ authIn.header.verify = "ok"
               /\ authIn.header.uid \in ActiveUsers)
              => (authOut.result = "user" /\ authOut.user = authIn.header.uid)

\* C10: on a handshake with a cookie token and a bearer token and
\* header auth disabled the cookie token is used and the header is not read;
\* with header auth enabled and no cookie token the header token is used;
\* with header auth disabled and no cookie token there is no credential.
C10_WsCredentialOrder ==
    authIn.channel = "ws" =>
        /\ (Truthy(authIn.cookie) /\ Truthy(authIn.header) /\ ~authIn.allow)
              => /\ authOut.jwt_source = "cookie"
                 /\ ~authOut.headerRead
                 /\ authOut = ws_call(authIn.cookie, NoValue, FALSE, authIn.innerRaises)
        /\ (~Truthy(authIn.cookie) /\ Truthy(authIn.header) /\ authIn.allow)
              => /\ authOut.jwt_source = "authorization"
                 /\ authOut.user = (IF authIn.header.verify = "ok" /\ authIn.header.uid \in UserRows
                                     THEN authIn.header.uid ELSE "")
        /\ (~Truthy(authIn.cookie) /\ ~authIn.allow)
              => /\ authOut.jwt_error = "missing_token"
                 /\ authOut.jwt_source = "none"
                 /\ authOut.user = ""
                 /\ ~authOut.headerRead

C10_Witness ==
    /\ authIn.channel = "ws"
    /\ authIn.cookie = [verify |-> "ok", uid |-> "u1"]
    /\ authIn.header = [verify |-> "ok", uid |-> "u2"]
    /\ ~authIn.allow
    /\ authOut.user = "u1"
    /\ authOut.jwt_source = "cookie"

(***************************************************************************)
(* Calls of the Remote Gateway (tts/resemble_client.py).                   *)
(***************************************************************************)
\* one call: os.environ.get reads the key of the environment of the process
GatewayCall(shape, reply) ==
    /\ gwIn' = [shape |-> shape, key |-> apiKey, reply |-> reply]
    /\ gwOut' = [shape |-> shape] @@ gateway_call(shape, apiKey, reply)
    /\ UNCHANGED <<apiKey, gwPending, notGwVars>>

\* RESEMBLE_API_KEY is configuration of the process: nothing in the program
\* writes it, and a process keeps the value it was started with. A process of
\* the deployment is started anew with the variable set, empty or unset;
\* no call is under way in a process that starts
ProcessStart(key) ==
    /\ gwPending = NoCall
    /\ key # apiKey
    /\ apiKey' = key
    /\ UNCHANGED <<gwIn, gwOut, gwPending, notGwVars>>

GatewayInit ==
    /\ GatewayAtRest
    /\ JobsAtRest
    /\ TokensAtRest
    /\ AuthAtRest

\* a POST of the streamed synthesis endpoint by an authenticated client
StreamSynthesize(valid, reply) ==
    /\ gwIn' = [shape |-> "StreamSynthesizeView", key |-> apiKey,
                reply |-> reply, valid |-> valid]
    /\ gwOut' = [shape |-> "StreamSynthesizeView"]
                    @@ StreamSynthesizeView_post(valid, apiKey, reply)
    /\ UNCHANGED <<apiKey, gwPending, notGwVars>>

\* a call of resemble_voice_design_generate up to line 171: the JSON request
\* is made with the key the environment holds now and reply is the
\* provider's answer. The call ends here unless the fallback is taken; then it
\* is between the two requests (one such call at a time)
VoiceDesignGenerate(reply) ==
    /\ gwPending = NoCall
    /\ IF FallbackTaken(apiKey, reply)
       THEN /\ gwPending' = [shape |-> "resemble_voice_design_generate",
                             key |-> apiKey, reply |-> reply]
            /\ UNCHANGED <<gwIn, gwOut>>
       ELSE /\ gwIn' = [shape |-> "resemble_voice_design_generate", key |-> apiKey,
                        key2 |-> apiKey, reply |-> reply, reply2 |-> NotSent]
            /\ gwOut' = [shape |-> "resemble_voice_design_generate"]
                    @@ resemble_voice_design_generate(apiKey, apiKey, reply, NotSent)
            /\ UNCHANGED gwPending
    /\ UNCHANGED <<apiKey, notGwVars>>

\* lines 174-179 of the call that took the fallback: post_multipart reads the
\* key the environment holds now, and reply2 is the provider's answer to the
\* multipart request if it is sent
VoiceDesignFallback(reply2) ==
    /\ gwPending # NoCall
    /\ gwIn' = [shape |-> "resemble_voice_design_generate", key |-> gwPending.key,
                key2 |-> apiKey, reply |-> gwPending.reply, reply2 |-> reply2]
    /\ gwOut' = [shape |-> "resemble_voice_design_generate"]
                    @@ resemble_voice_design_generate(gwPending.key, apiKey,
                                                      gwPending.reply, reply2)
    /\ gwPending' = NoCall
    /\ UNCHANGED <<apiKey, notGwVars>>

GatewayNext ==
    \/ \E shape \in Shapes, reply \in GatewayReplies : GatewayCall(shape, reply)
    \/ \E reply \in GatewayReplies : VoiceDesignGenerate(reply)
    \/ \E reply2 \in FallbackReplies : VoiceDesignFallback(reply2)
    \/ \E valid \in BOOLEAN, reply \in GatewayReplies : StreamSynthesize(valid, reply)
    \/ \E key \in KeyStates : ProcessStart(key)

SpecGateway == GatewayInit /\ [][GatewayNext]_vars

\* C20: for each call shape a reply with a status of 400 or more makes
\* the call raise, with a JSON body or not, and nothing is returned; a reply
\* below 400 with a JSON body is returned as the parsed body by the JSON
\* shapes, and post_stream returns the open response.
C20_ErrorStatusRaises ==
    (gwIn.shape \in Shapes /\ gwIn.key = "set" /\ ~gwIn.reply.net) =>
        /\ gwIn.reply.status >= 400 =>
              /\ gwOut.result.raised
              /\ gwOut.result.data = BodyNoItem
        /\ (gwIn.reply.status < 400 /\ gwIn.reply.json /\ gwIn.shape \in JsonShapes) =>
              gwOut.result = Returned(gwIn.reply.body)
        /\ (gwIn.reply.status < 400 /\ gwIn.shape = "post_stream") =>
              gwOut.result = Returned(StreamHandle)

C20_Witness ==
    /\ gwIn.shape = "post_multipart" /\ gwIn.key = "set"
    /\ gwIn.reply = [net |-> FALSE, status |-> 422, json |-> TRUE, body |-> BodyError]
    /\ gwOut.result.raised /\ gwOut.result.exc = "HTTPError"

\* C21: a call made while RESEMBLE_API_KEY is unset or empty raises the
\* RuntimeError of the header helpers and sends no request, whatever the
\* shape; the key is the one the environment holds when the call is made,
\* so a call of a process started without the key raises and a call of a
\* process started with it reaches the provider.
C21_MissingKeyRaises ==
    [][(gwIn'.shape \in Shapes /\ (gwIn' # gwIn \/ gwOut' # gwOut)) =>
          /\ gwOut'.sent <=> apiKey = "set"
          /\ apiKey # "set" =>
                gwOut'.result = Raised("RuntimeError", "RESEMBLE_API_KEY is not set")]_vars

C21_Witness ==
    /\ gwIn.shape = "post_stream" /\ gwIn.key = "empty"
    /\ ~gwOut.sent /\ gwOut.result.exc = "RuntimeError"

\* C22: in a streamed synthesis request whose provider reply has a status
\* of 400 or more, the view starts no streaming response and the client gets
\* the normalized error: the provider's status with the provider's error
\* wrapped as the body; a streaming response is started only when the request
\* was sent and the provider's initial status is below 400.
C22_StreamErrorBeforeResponse ==
    gwIn.shape = "StreamSynthesizeView" =>
        /\ (gwIn.valid /\ gwIn.key = "set" /\ ~gwIn.reply.net
                /\ gwIn.reply.status >= 400) =>
              /\ ~gwOut.streaming
              /\ gwOut.status = gwIn.reply.status
              /\ gwOut.body = "provider_error"
        /\ gwOut.streaming =>
              /\ gwOut.sent
              /\ ~gwIn.reply.net
              /\ gwIn.reply.status < 400

\* the token a handshake extracted
WsToken(req) == WsExtract(req.cookie, req.header, req.allow).token

\* C23: every handshake calls the inner application exactly once, with
\* an identity and a reason: no credential gives anonymous with missing_token,
\* a token that fails verification anonymous with invalid_or_expired, a token
\* without user_id missing_user_id, a user_id of no user user_not_found.
C23_WsNeverAborts ==
    authIn.channel = "ws" =>
        LET tok == WsToken(authIn)
        IN /\ authOut.innerCalls = 1
           /\ ~Truthy(tok) => (authOut.user = "" /\ authOut.jwt_error = "missing_token")
           /\ (Truthy(tok) /\ tok.verify # "ok") =>
                 (authOut.user = "" /\ authOut.jwt_error = "invalid_or_expired")
           /\ (Truthy(tok) /\ tok.verify = "ok" /\ tok.uid = "") =>
                 (authOut.user = "" /\ authOut.jwt_error = "missing_user_id")
           /\ (Truthy(tok) /\ tok.verify = "ok" /\ tok.uid = "u9") =>
                 (authOut.user = "" /\ authOut.jwt_error = "user_not_found")

\* what a request handler sees of an HTTP authentication: the user,
\* AnonymousUser (""), or no handler at all because the request was refused
HttpIdentity(out) ==
    IF out.result = "user" THEN out.user
    ELSE IF out.result = "anonymous" THEN ""
    ELSE "aborted"
SafeMethods == {"GET", "HEAD", "OPTIONS", "TRACE"}

\* C24: for a safe method and an access token in the cookie, the HTTP
\* authenticator resolves to the outcome the WebSocket handshake resolves to
\* for the same cookie: the same user, or anonymous; an invalid or expired
\* token gives an anonymous identity on HTTP and the request is not refused.
C24_HttpWsSameOutcome ==
    (authIn.channel = "http" /\ authIn.method \in SafeMethods /\ Truthy(authIn.cookie)) =>
        HttpIdentity(authOut) = ws_call(authIn.cookie, authIn.header, FALSE, FALSE).user

(***************************************************************************)
(* Voice design and voice clone tasks and their status views               *)
(* (voices/tasks.py, voices/views.py).                                     *)
(***************************************************************************)
VoiceTasks ==
    {"voice_design_generate_task", "voice_clone_create_task", "voice_clone_build_task"}
StatusViews == {"VoiceDesignJobStatusView", "VoiceCloneJobStatusView"}

\* autoretry_for=(requests.exceptions.RequestException,): the errors of
\* requests, HTTPError and its JSON decode error included
RequestExceptions == {"ConnectionError", "HTTPError", "JSONDecodeError"}

\* VoiceDesignGenerateAsyncView.post, VoiceCloneCreateAsyncView.post and
\* VoiceCloneBuildAsyncView.post: after a valid payload delay()
\* puts the message in the broker and the handle is returned with 202
VoiceSubmit(task, h) ==
    /\ vtasks[h].task = "none"
    /\ \A g \in Handles : g < h => vtasks[g].task # "none"
    /\ vtasks' = [vtasks EXCEPT ![h] = [task |-> task, queued |-> TRUE,
                                         retries |-> 0, meta |-> NoMeta]]
    /\ UNCHANGED <<vpoll, notVoiceVars>>

\* the body of the task: one call of the gateway (voices/tasks.py lines 22,
\* 36 and 47); the key is the same at both reads of the design call here,
\* nothing in this part changes it
VoiceTaskBody(task, reply1, reply2) ==
    CASE task = "voice_design_generate_task" ->
            resemble_voice_design_generate(apiKey, apiKey, reply1, reply2).result
      [] task = "voice_clone_create_task" ->
            resemble_create_custom_voice(apiKey, reply1).result
      [] task = "voice_clone_build_task" ->
            resemble_build_voice(apiKey, reply1).result

\* what the worker stores for the handle after one execution: SUCCESS with
\* the return value, RETRY with the error while retries are left for an
\* error of requests, FAILURE with the error otherwise
VoiceTaskOutcome(t, r) ==
    IF ~r.raised
    THEN [t EXCEPT !.queued = FALSE, !.meta = [status |-> "SUCCESS", result |-> "data"]]
    ELSE IF r.exc \in RequestExceptions /\ CeleryRetries(t.retries)
    THEN [t EXCEPT !.retries = @ + 1, !.meta = [status |-> "RETRY", result |-> r.exc]]
    ELSE [t EXCEPT !.queued = FALSE, !.meta = [status |-> "FAILURE", result |-> r.exc]]

\* a worker executes the message of handle h
VoiceTaskRun(h, reply1, reply2) ==
    /\ vtasks[h].queued
    /\ vtasks' = [vtasks EXCEPT ![h] =
                      VoiceTaskOutcome(@, VoiceTaskBody(@.task, reply1, reply2))]
    /\ UNCHANGED <<vpoll, notVoiceVars>>

\* the stored result of a handle goes away: result_expires passes, or the
\* result backend restarts
VoiceResultLost(h) ==
    /\ vtasks[h].meta # NoMeta
    /\ vtasks' = [vtasks EXCEPT ![h].meta = NoMeta]
    /\ UNCHANGED <<vpoll, notVoiceVars>>

\* AsyncResult(job_id): the stored state of the handle, PENDING when the
\* backend holds nothing for it
AsyncResult(h) ==
    IF h \in Handles /\ vtasks[h].meta # NoMeta THEN vtasks[h].meta
    ELSE [status |-> "PENDING", result |-> ""]

\* str.lower() of a task state
Lower(state) ==
    CASE state = "PENDING" -> "pending"
      [] state = "RETRY" -> "retry"
      [] state = "SUCCESS" -> "success"
      [] state = "FAILURE" -> "failure"

\* the view has not answered yet: it needs one more read of the backend
Unanswered == [success |-> FALSE, status |-> "", result |-> "", error |-> ""]

\* VoiceDesignJobStatusView.get and VoiceCloneJobStatusView.get (same body),
\* as a function of the metas the reads of the backend gave so far:
\* reads[1] is what res.successful() read, reads[2] what res.failed() read,
\* reads[3] what res.status read. AsyncResult keeps a meta it read in a ready
\* state (SUCCESS, FAILURE) and reads the backend no more after that
JobStatusView_get(reads) ==
    IF reads[1].status = "SUCCESS"
    THEN [success |-> TRUE, status |-> "completed", result |-> reads[1].result,
          error |-> ""]
    ELSE IF reads[1].status = "FAILURE"
    THEN [success |-> FALSE, status |-> "failed", result |-> "",
          error |-> reads[1].result]
    ELSE IF Len(reads) = 1 THEN Unanswered
    ELSE IF reads[2].status = "FAILURE"
    THEN [success |-> FALSE, status |-> "failed", result |-> "",
          error |-> reads[2].result]
    ELSE IF reads[2].status = "SUCCESS"
    THEN [success |-> TRUE, status |-> "success", result |-> "", error |-> ""]
    ELSE IF Len(reads) = 2 THEN Unanswered
    ELSE [success |-> TRUE, status |-> Lower(reads[3].status), result |-> "",
          error |-> ""]

\* the scheduler knows the handle: its message is in the broker or its result
\* is stored; a handle never issued, or whose result is gone, is not known
HandleKnown(h) == h \in Handles /\ (vtasks[h].queued \/ vtasks[h].meta # NoMeta)

\* a GET of a status view with any handle arrives: res.successful() reads the
\* backend; the view answers when that read decides it
VoiceJobStatus(view, h) ==
    /\ vpoll.response # Unanswered
    /\ vpoll' = [view |-> view, handle |-> h, known |-> HandleKnown(h),
                 reads |-> <<AsyncResult(h)>>,
                 response |-> JobStatusView_get(<<AsyncResult(h)>>)]
    /\ UNCHANGED <<vtasks, notVoiceVars>>

\* the next look at the state by the view that has not answered: res.failed(),
\* then res.status; each reads what the backend holds at that moment
VoiceJobStatusRead ==
    /\ vpoll.response = Unanswered
    /\ vpoll' = [vpoll EXCEPT
                    !.reads = Append(@, AsyncResult(vpoll.handle)),
                    !.response = JobStatusView_get(
                                     Append(vpoll.reads, AsyncResult(vpoll.handle)))]
    /\ UNCHANGED <<vtasks, notVoiceVars>>

VoiceInit ==
    /\ JobsAtRest
    /\ TokensAtRest
    /\ AuthAtRest
    /\ GatewayAtRest

VoiceNext ==
    \/ \E task \in VoiceTasks, h \in Handles : VoiceSubmit(task, h)
    \/ \E h \in Handles, reply1 \in AllReplies, reply2 \in AllReplies :
          VoiceTaskRun(h, reply1, reply2)
    \/ \E h \in Handles : VoiceResultLost(h)
    \/ \E view \in StatusViews, h \in AnyHandles : VoiceJobStatus(view, h)
    \/ VoiceJobStatusRead

SpecVoice == VoiceInit /\ [][VoiceNext]_vars

\* C25: a poll of either status view with a handle the scheduler does
\* not know answers status unknown; it answers completed with a result only
\* for a task that succeeded and failed with an error only for a task that
\* failed.
C25_UnknownHandleIsUnknown ==
    (vpoll.view # "none" /\ vpoll.response # Unanswered) =>
        /\ ~vpoll.known => vpoll.response.status = "unknown"
        /\ vpoll.response.status = "completed" =>
              /\ \E i \in 1 .. Len(vpoll.reads) : vpoll.reads[i].status = "SUCCESS"
              /\ vpoll.response.result = "data"
        /\ vpoll.response.status = "failed" =>
              /\ \E i \in 1 .. Len(vpoll.reads) : vpoll.reads[i].status = "FAILURE"
              /\ vpoll.response.error # ""

(***************************************************************************)
(* Registration (user/serializers.py, user/views.py, core/models.py).      *)
(* An email is a sequence of characters.                                   *)
(***************************************************************************)
\* str.lower() of one character and of a string
LowerChar(c) ==
    CASE c = "A" -> "a"
      [] c = "B" -> "b"
      [] c = "X" -> "x"
      [] OTHER -> c
StrLower(str) == [i \in 1 .. Len(str) |-> LowerChar(str[i])]

\* str.strip(): the white space at both ends is removed
RECURSIVE LStrip(_)
LStrip(str) == IF str # << >> /\ Head(str) = " " THEN LStrip(Tail(str)) ELSE str
RECURSIVE RStrip(_)
RStrip(str) ==
    IF str # << >> /\ str[Len(str)] = " " THEN RStrip(SubSeq(str, 1, Len(str) - 1))
    ELSE str
StrStrip(str) == RStrip(LStrip(str))

\* BaseUserManager.normalize_email: email.strip().rsplit("@", 1); with an @
\* the result is the stripped value with the part after the last @
\* lower-cased, without one (ValueError) the value is returned as it came
LastAt(str) ==
    IF \E i \in 1 .. Len(str) : str[i] = "@"
    THEN CHOOSE i \in 1 .. Len(str) :
            str[i] = "@" /\ \A k \in (i + 1) .. Len(str) : str[k] # "@"
    ELSE 0
normalize_email(str) ==
    LET t == StrStrip(str)
    IN IF LastAt(t) = 0 THEN str
       ELSE [i \in 1 .. Len(t) |-> IF i > LastAt(t) THEN LowerChar(t[i]) ELSE t[i]]

\* the emails registration requests carry
EmailInputs ==
    { <<"a", "@", "x">>, <<"A", "@", "x">>, <<"a", "@", "X">>,
      <<" ", "a", "@", "x">>, <<"b", "@", "x">>, <<"B", "@", "X", " ">> }

\* CreateUserSerializer.validate_email, line 106: the value it checks and
\* hands on
validate_email_value(value) == StrLower(StrStrip(value))

\* is_valid() on the email: the field trims the value and its UniqueValidator
\* looks for a row with exactly that email, then validate_email looks for a
\* row with the lower-cased one; "" stands for a refusal (400)
CreateUserSerializer_is_valid(rows, value) ==
    IF StrStrip(value) \in rows THEN NoEmail
    ELSE IF validate_email_value(StrStrip(value)) \in rows THEN NoEmail
    ELSE validate_email_value(StrStrip(value))

RegResponse(email, code, created, before) ==
    [email |-> email, code |-> code, created |-> created, before |-> before]

\* CreateUserView.create up to is_valid: a refusal is answered with 400, a
\* valid request goes on to serializer.save()
RegisterValidate(k, value) ==
    /\ regs[k] = NoEmail
    /\ LET v == CreateUserSerializer_is_valid(userEmails, value)
       IN IF v = NoEmail
          THEN /\ regResp' = RegResponse(value, 400, FALSE, userEmails)
               /\ UNCHANGED <<userEmails, regs>>
          ELSE /\ regs' = [regs EXCEPT ![k] = v]
               /\ UNCHANGED <<userEmails, regResp>>
    /\ UNCHANGED notRegVars

\* serializer.save(): create_user normalizes the email and INSERTs the row;
\* the unique index on email refuses a second row with the same email
\* (IntegrityError, answered with 500), otherwise the row exists and the
\* response is 201
RegisterSave(k) ==
    /\ regs[k] # NoEmail
    /\ LET e == normalize_email(regs[k])
       IN IF e \in userEmails
          THEN /\ regResp' = RegResponse(regs[k], 500, FALSE, userEmails)
               /\ UNCHANGED userEmails
          ELSE /\ userEmails' = userEmails \cup {e}
               /\ regResp' = RegResponse(regs[k], 201, TRUE, userEmails)
    /\ regs' = [regs EXCEPT ![k] = NoEmail]
    /\ UNCHANGED notRegVars

\* UserManager.create_superuser (what manage.py createsuperuser calls): an
\* empty email raises ValueError; otherwise create_user INSERTs a row whose
\* email went through normalize_email only, and the unique index refuses a
\* row with exactly that email (IntegrityError); no serializer is involved
\* and no HTTP response is made
create_superuser(value) ==
    /\ value # NoEmail
    /\ normalize_email(value) \notin userEmails
    /\ userEmails' = userEmails \cup {normalize_email(value)}
    /\ UNCHANGED <<regs, regResp>>
    /\ UNCHANGED notRegVars

RegInit ==
    /\ JobsAtRest
    /\ TokensAtRest
    /\ AuthAtRest
    /\ GatewayAtRest

RegNext ==
    \/ \E k \in RegSlots, value \in EmailInputs : RegisterValidate(k, value)
    \/ \E k \in RegSlots : RegisterSave(k)
    \/ \E value \in EmailInputs : create_superuser(value)

SpecReg == RegInit /\ [][RegNext]_vars

\* two emails are the same after trimming and lower-casing
SameEmail(e1, e2) == StrLower(StrStrip(e1)) = StrLower(StrStrip(e2))

\* C26: no two User rows have emails that are equal after trimming and
\* lower-casing, whatever requests ran and however they interleaved; and a
\* registration whose email is, up to letter case, the email of a row that
\* existed when it arrived is refused and creates no row.
C26_EmailsUniqueNormalized ==
    /\ \A e1 \in userEmails, e2 \in userEmails : SameEmail(e1, e2) => e1 = e2
    /\ (regResp.code # 0 /\ \E e \in regResp.before : SameEmail(e, regResp.email)) =>
          (regResp.code >= 400 /\ ~regResp.created)

\* C27: a call of resemble_voice_design_generate sends at most two
\* requests; the multipart request is sent exactly when the JSON request was
\* answered with status 400, 404, 415 or 422; a JSON request that succeeds
\* returns after one request; a missing key, a network error or any other
\* error of the JSON request reaches the caller with no second request.
C27_FallbackOnlyOnListedStatus ==
    gwIn.shape = "resemble_voice_design_generate" =>
        LET answered == gwIn.key = "set" /\ ~gwIn.reply.net
        IN /\ gwOut.requests <= 2
           /\ gwOut.requests = 2 <=>
                 (answered /\ gwIn.reply.status \in {400, 404, 415, 422})
           /\ gwOut.fallback <=> gwOut.requests = 2
           /\ (answered /\ gwIn.reply.json /\ gwIn.reply.status < 400) =>
                 (gwOut.requests = 1 /\ ~gwOut.result.raised)
           /\ gwIn.key # "set" =>
                 (gwOut.requests = 0 /\ gwOut.result.exc = "RuntimeError")
           /\ (gwIn.key = "set" /\ gwIn.reply.net) =>
                 (gwOut.requests = 1 /\ gwOut.result.exc = "ConnectionError")
           /\ (answered /\ gwIn.reply.status >= 400
                  /\ gwIn.reply.status \notin {400, 404, 415, 422}) =>
                 (gwOut.requests = 1 /\ gwOut.result.raised)

C27_Witness ==
    /\ gwIn.shape = "resemble_voice_design_generate" /\ gwIn.key = "set"
    /\ gwIn.reply = [net |-> FALSE, status |-> 415, json |-> FALSE, body |-> BodyNoItem]
    /\ gwIn.reply2 = ReplyCreated
    /\ gwOut.requests = 2 /\ ~gwOut.result.raised

\* C28: after every handshake the scope is consistent: the user is an
\* authenticated user exactly when jwt_error is None, exactly when the jwt
\* claims are attached; jwt_source is None exactly when no token was found
\* (missing_token), and otherwise names where the token was read from.
C28_WsScopeConsistent ==
    authIn.channel = "ws" =>
        /\ (authOut.user # "") <=> (authOut.jwt_error = "")
        /\ (authOut.jwt_error = "") <=> authOut.jwt
        /\ (authOut.jwt_source = "none") <=> (authOut.jwt_error = "missing_token")
        /\ (authOut.jwt_source = "none") <=> ~Truthy(WsToken(authIn))
        /\ authOut.jwt_source # "none" =>
              authOut.jwt_source = (IF Truthy(authIn.cookie) THEN "cookie"
                                    ELSE "authorization")

C28_Witness ==
    /\ authIn.channel = "ws" /\ authIn.allow
    /\ authIn.cookie = EmptyValue
    /\ authIn.header = [verify |-> "ok", uid |-> ""]
    /\ authOut.user = "" /\ ~authOut.jwt
    /\ authOut.jwt_source = "authorization"

====
